---------------------------- MODULE Spec2Model ----------------------------
(***************************************************************************)
(* Model of streamlit_app.py, the signature comparison page.               *)
(*                                                                         *)
(* The page is a Streamlit script: every user interaction (changing an     *)
(* upload slot, clicking the compare button, clicking the download         *)
(* button) re-executes the script from its first line to its last.  The    *)
(* script reads the four credentials from the process environment, renders *)
(* two upload slots, and, in the run that the compare button triggered,    *)
(* checks credentials and uploads, constructs the model client, encodes    *)
(* both images, builds one multimodal message, calls the remote model and  *)
(* renders the returned text together with a download button.              *)
(*                                                                         *)
(* Text is modelled as a sequence of strings (chunks or single             *)
(* characters), bytes as integers 0..255.                                  *)
(***************************************************************************)
EXTENDS Integers, Sequences, FiniteSets, TLC

(***************************************************************************)
(* Bounds of the model.                                                    *)
(***************************************************************************)
\* Longest pixel payload of an uploaded image, in bytes.
MaxPixelBytes == 1

\* Byte values the pixel payloads are drawn from.
PixelValues == {0, 255}

(***************************************************************************)
(* Values of the Python program.                                           *)
(***************************************************************************)
\* os.getenv gives None for an unset variable; bool(None) and bool("") are
\* both False.
None == "<None>"

Falsy(v) == v = None \/ v = ""

\* What os.getenv can return for one variable: unset, set to the empty
\* string, set to a value.
EnvValues == {None, "", "set"}

\* An upload slot with no file: st.file_uploader returns None.
NoFile == [fmt |-> "none"]

\* Pixel payloads of length 1..MaxPixelBytes.
PixelData == UNION {[1..n -> PixelValues] : n \in 1..MaxPixelBytes}

\* Files the upload widget accepts (type=["png", "jpg", "jpeg"]).  The
\* extension filter does not look at the content, so besides the sound files
\* there are: a JPEG in CMYK mode (a valid image PNG cannot hold), a file
\* with a valid header whose pixel data is cut short (Image.open succeeds,
\* loading the pixels fails) and a file that is no image at all (Image.open
\* fails).
UploadableFiles ==
    {[fmt |-> f, mode |-> "RGB", px |-> p, integrity |-> "ok"] :
        f \in {"png", "jpeg"}, p \in PixelData}
    \cup {[fmt |-> "jpeg", mode |-> "CMYK", px |-> <<0>>, integrity |-> "ok"],
          [fmt |-> "png", mode |-> "RGB", px |-> <<0>>, integrity |-> "truncated"],
          [fmt |-> "png", mode |-> "RGB", px |-> <<0>>, integrity |-> "corrupt"]}

\* Texts the remote model may return as response.content.
Responses ==
    {<<"### Similarity Score", "\n", "85">>,
     <<"### Similarity Score", "\n", "12", "\n", "### Detailed Comparison">>}

\* Failures the remote call may raise (network, authentication).
RemoteFailures == {"APIConnectionError", "AuthenticationError"}

(***************************************************************************)
(* Image codec: PIL's Image.open, Image.save(format="PNG") and             *)
(* base64.b64encode, as used by encode_image.                              *)
(***************************************************************************)
\* Image.open(file): identifies the file from its header and returns a
\* lazily loaded image; a file that is no image raises.
CanOpen(file) == file # NoFile /\ file.integrity # "corrupt"

Image_open(file) ==
    [mode |-> file.mode, px |-> file.px, loadable |-> file.integrity = "ok"]

\* The first eight bytes of every PNG stream.
PngSignature == <<137, 80, 78, 71, 13, 10, 26, 10>>

\* PNG colour type of a PIL mode; CMYK has none.
PngWritableModes == {"RGB"}

PngColourType(mode) == IF mode = "RGB" THEN 2 ELSE 0

\* Variant of CanSavePng: saving never raises.
CanSavePngAnyImage(image) == TRUE

\* image.save(buffered, format="PNG") loads the pixels and writes them; it
\* raises when the pixels cannot be loaded or the mode cannot be written.
CanSavePng(image) == image.loadable /\ image.mode \in PngWritableModes

\* The PNG byte stream: signature, colour type, pixel payload (chunk framing
\* and compression are left out; the stream is a function of mode and
\* pixels and does not depend on the format of the upload).
PngBytes(image) == PngSignature \o <<PngColourType(image.mode)>> \o image.px

Base64Alphabet ==
    <<"A", "B", "C", "D", "E", "F", "G", "H", "I", "J", "K", "L", "M",
      "N", "O", "P", "Q", "R", "S", "T", "U", "V", "W", "X", "Y", "Z",
      "a", "b", "c", "d", "e", "f", "g", "h", "i", "j", "k", "l", "m",
      "n", "o", "p", "q", "r", "s", "t", "u", "v", "w", "x", "y", "z",
      "0", "1", "2", "3", "4", "5", "6", "7", "8", "9", "+", "/">>

B64Char(sextet) == Base64Alphabet[sextet + 1]

\* base64.b64encode(bytes).decode(): three bytes give four characters, the
\* tail is padded with "=", no line breaks.
RECURSIVE b64encode(_)
b64encode(bytes) ==
    IF Len(bytes) = 0 THEN <<>>
    ELSE IF Len(bytes) = 1 THEN
        <<B64Char(bytes[1] \div 4), B64Char((bytes[1] % 4) * 16), "=", "=">>
    ELSE IF Len(bytes) = 2 THEN
        <<B64Char(bytes[1] \div 4),
          B64Char((bytes[1] % 4) * 16 + bytes[2] \div 16),
          B64Char((bytes[2] % 16) * 4), "=">>
    ELSE
        <<B64Char(bytes[1] \div 4),
          B64Char((bytes[1] % 4) * 16 + bytes[2] \div 16),
          B64Char((bytes[2] % 16) * 4 + bytes[3] \div 64),
          B64Char(bytes[3] % 64)>>
        \o b64encode(SubSeq(bytes, 4, Len(bytes)))

\* encode_image(image): the base64 text of the image saved as PNG.
encode_image(image) == b64encode(PngBytes(image))


(***************************************************************************)
(* State.                                                                  *)
(***************************************************************************)
VARIABLES
    azure_endpoint,   \* os.getenv("ENDPOINT"), read once when the process starts
    api_key,          \* os.getenv("SECRET_KEY")
    deployment_name,  \* os.getenv("DEPLOYMENT")
    api_version,      \* os.getenv("VERSION")
    signature1,       \* content of upload slot "sig1"
    signature2,       \* content of upload slot "sig2"
    trigger,          \* the interaction that started the current script run
    pc,               \* position of the script run; "idle" between runs
    screen,           \* elements the current (or last) script run rendered
    llm,              \* the model client constructed by this run
    base64_image1,    \* encode_image result for slot 1 in this run
    base64_image2,    \* encode_image result for slot 2 in this run
    message,          \* the HumanMessage built by this run
    response,         \* response.content received by this run
    sent,             \* argument lists of the llm.invoke calls of this run
    inflight,         \* remote calls issued and not yet answered
    callResult,       \* what the remote endpoint did with this run's call
    failedBefore      \* some remote call of the session has raised

vars == <<azure_endpoint, api_key, deployment_name, api_version,
          signature1, signature2, trigger, pc, screen, llm,
          base64_image1, base64_image2, message, response,
          sent, inflight, callResult, failedBefore>>

credentials == <<azure_endpoint, api_key, deployment_name, api_version>>

NoClient == [kind |-> "none"]
NoPayload == <<"<unset>">>
NoMessage == [kind |-> "none"]
NoResponse == <<"<unset>">>
NoCall == [status |-> "none"]

(***************************************************************************)
(* Page elements.                                                          *)
(***************************************************************************)
El(kind, body) == [kind |-> kind, body |-> body]

\* Lines 15-24: page title and introduction.
PageHeader ==
    <<El("title", <<"Signature Comparison Tool">>),
      El("markdown", <<"Upload **two signature images** to compare their similarity using AI.">>)>>

\* One upload column up to and including its file_uploader widget.
UploaderWidget(n) ==
    <<El("subheader", <<"Signature ", n>>),
      El("file_uploader", <<"sig", n>>)>>

\* The preview below an uploader: Image.open of the slot, then st.image.
UploadPreview(n, file) ==
    IF file = NoFile THEN <<>>
    ELSE <<[kind |-> "image", body |-> <<"Signature ", n>>,
            image |-> Image_open(file)]>>

\* The slot's file makes Image.open raise outside any try block.
PreviewRaises(file) == file # NoFile /\ ~CanOpen(file)

UncaughtException == El("exception", <<"UnidentifiedImageError">>)

\* Lines 61-63: the rule and the compare button.
CompareButton ==
    <<El("markdown", <<"---">>),
      El("button", <<"Compare Signatures">>)>>

Spinner == El("spinner", <<"Analyzing signatures... Please wait.">>)

\* Lines 158-163: the footer.
PageFooter ==
    <<El("markdown", <<"---">>),
      El("markdown", <<"Powered by Azure OpenAI GPT-4 Vision">>)>>

ConfigurationErrorMsg == <<"Azure OpenAI credentials missing in your .env file.">>
InputErrorMsg == <<"Please upload both signature images.">>
RemoteErrorMsg(e) == <<"Error: ", e>>

\* Variant of ResultsSection: the download data loses the last chunk of the
\* response.
ResultsSectionShortDownload(content) ==
    <<El("success", <<"Analysis Complete!">>),
      El("markdown", <<"### AI-Generated Signature Comparison Report">>),
      [kind |-> "report", body |-> content, unsafe_allow_html |-> TRUE],
      [kind |-> "download_button", body |-> <<"Download Report">>,
       data |-> SubSeq(content, 1, Len(content) - 1),
       file_name |-> "signature_comparison_report.md",
       mime |-> "text/markdown"]>>

\* Lines 139-150: the report and the download button, both given
\* response.content.
ResultsSection(content) ==
    <<El("success", <<"Analysis Complete!">>),
      El("markdown", <<"### AI-Generated Signature Comparison Report">>),
      [kind |-> "report", body |-> content, unsafe_allow_html |-> TRUE],
      [kind |-> "download_button", body |-> <<"Download Report">>,
       data |-> content, file_name |-> "signature_comparison_report.md",
       mime |-> "text/markdown"]>>

\* Variant of ExceptHandler: the exception is swallowed without a message.
ExceptHandlerSilent(e) == <<>>

\* Lines 152-156: the except clause.
ExceptHandler(e) ==
    <<El("error", RemoteErrorMsg(e)),
      El("info", <<"Ensure your Azure GPT-4 Vision deployment is active and credentials are correct.">>)>>

Rendered(kind) == \E i \in 1..Len(screen) : screen[i].kind = kind

Shows(element) == \E i \in 1..Len(screen) : screen[i] = element


(***************************************************************************)
(* The compare handler's decisions and values.                             *)
(***************************************************************************)
\* Variant of ButtonValue: the button value stays set in the run the download
\* button started.
ButtonValueSticky(trig) == trig \in {"compare", "download"}

\* Line 63: st.button returns True only in the run its own click started.
ButtonValue(trig) == trig = "compare"

\* Variants of CredentialsMissing: only one of the two settings is tested.
CredentialsMissingEndpointOnly(endpoint, key) == Falsy(endpoint)

CredentialsMissingKeyOnly(endpoint, key) == Falsy(key)

\* Line 64: not azure_endpoint or not api_key.
CredentialsMissing(endpoint, key) == Falsy(endpoint) \/ Falsy(key)

\* Variant of ImagesMissing: "and" in place of "or".
ImagesMissingBoth(s1, s2) == s1 = NoFile /\ s2 = NoFile

\* Line 66: not signature1 or not signature2.
ImagesMissing(s1, s2) == s1 = NoFile \/ s2 = NoFile

\* Variant of CompareBranch: the image check comes first.
CompareBranchImagesFirst(clicked, endpoint, key, s1, s2) ==
    IF ~clicked THEN "skip"
    ELSE IF s1 = NoFile \/ s2 = NoFile THEN "input_error"
    ELSE IF Falsy(endpoint) \/ Falsy(key) THEN "configuration_error"
    ELSE "analyze"

\* Lines 63-68: the if / elif / else of the handler.
CompareBranch(clicked, endpoint, key, s1, s2) ==
    IF ~clicked THEN "skip"
    ELSE IF CredentialsMissing(endpoint, key) THEN "configuration_error"
    ELSE IF ImagesMissing(s1, s2) THEN "input_error"
    ELSE "analyze"

\* Lines 72-77: the client holds the four settings it was given.
AzureChatOpenAI(endpoint, key, deployment, version) ==
    [kind |-> "AzureChatOpenAI", azure_endpoint |-> endpoint, api_key |-> key,
     deployment_name |-> deployment, api_version |-> version]

\* The client's constructor is library code.  Given api_version=None it
\* falls back to the OPENAI_API_VERSION variable of the environment (which
\* load_dotenv may have filled) and raises ValueError when that is unset
\* too; the script does not read that variable, so both outcomes are
\* possible.  Any string, the empty one included, is accepted as given.
ClientInitMayRaise(version) == version = None

\* Lines 84-115: the fixed prompt.
prompt ==
    <<"You are an expert in signature verification and forensic handwriting analysis.",
      "### Similarity Score", "### Detailed Comparison",
      "### Observed Differences or Issues">>

\* Lines 124, 130: f"data:image/png;base64,{base64_image}".
DataUri(payload) == <<"data:image/png;base64,">> \o payload

\* Variant of HumanMessage: the two image parts change places.
HumanMessageSwapped(text, payload1, payload2) ==
    [kind |-> "HumanMessage",
     content |-> <<[type |-> "text", text |-> text],
                   [type |-> "image_url", image_url |-> [url |-> DataUri(payload2)]],
                   [type |-> "image_url", image_url |-> [url |-> DataUri(payload1)]]>>]

\* Lines 118-134: one message of three parts.
HumanMessage(text, payload1, payload2) ==
    [kind |-> "HumanMessage",
     content |-> <<[type |-> "text", text |-> text],
                   [type |-> "image_url", image_url |-> [url |-> DataUri(payload1)]],
                   [type |-> "image_url", image_url |-> [url |-> DataUri(payload2)]]>>]

\* Variant of ScriptIdle: an interaction starts a run at any time.
ScriptAlwaysInterruptible == TRUE

\* The script runs on one thread from line 1 to line 163; an interaction
\* starts the next run only when the current one has ended.
ScriptIdle == pc = "idle"

\* Lines 15-68: the page from its first line to the handler's branch, for a
\* run started by trig with the given credentials and slots.  The result is
\* the rendered elements and the position the run has reached.
PageRun(trig, endpoint, key, s1, s2) ==
    LET col1 == PageHeader \o UploaderWidget("1")
        col2 == col1 \o UploadPreview("1", s1) \o UploaderWidget("2")
        top == col2 \o UploadPreview("2", s2) \o CompareButton
        branch == CompareBranch(ButtonValue(trig), endpoint, key, s1, s2)
    IN  IF PreviewRaises(s1)
        THEN [pc |-> "idle", screen |-> Append(col1, UncaughtException)]
        ELSE IF PreviewRaises(s2)
        THEN [pc |-> "idle", screen |-> Append(col2, UncaughtException)]
        ELSE IF branch = "skip"
        THEN [pc |-> "idle", screen |-> top \o PageFooter]
        ELSE IF branch = "configuration_error"
        THEN [pc |-> "idle",
              screen |-> top \o <<El("error", ConfigurationErrorMsg)>> \o PageFooter]
        ELSE IF branch = "input_error"
        THEN [pc |-> "idle",
              screen |-> top \o <<El("error", InputErrorMsg)>> \o PageFooter]
        ELSE [pc |-> "init", screen |-> Append(top, Spinner)]

(***************************************************************************)
(* Initial state: the process has read its environment and the first page  *)
(* load has run the script with both slots empty.                          *)
(***************************************************************************)
Init ==
    /\ azure_endpoint \in EnvValues
    /\ api_key \in EnvValues
    /\ deployment_name \in EnvValues
    /\ api_version \in EnvValues
    /\ signature1 = NoFile
    /\ signature2 = NoFile
    /\ trigger = "load"
    /\ pc = PageRun("load", azure_endpoint, api_key, NoFile, NoFile).pc
    /\ screen = PageRun("load", azure_endpoint, api_key, NoFile, NoFile).screen
    /\ llm = NoClient
    /\ base64_image1 = NoPayload
    /\ base64_image2 = NoPayload
    /\ message = NoMessage
    /\ response = NoResponse
    /\ sent = <<>>
    /\ inflight = 0
    /\ callResult = NoCall
    /\ failedBefore = FALSE

(***************************************************************************)
(* User interactions.  Each one re-executes the script: the names of the   *)
(* previous run are gone, the page is rendered anew.                       *)
(***************************************************************************)
Rerun(trig, s1, s2) ==
    /\ signature1' = s1
    /\ signature2' = s2
    /\ trigger' = trig
    /\ pc' = PageRun(trig, azure_endpoint, api_key, s1, s2).pc
    /\ screen' = PageRun(trig, azure_endpoint, api_key, s1, s2).screen
    /\ llm' = NoClient
    /\ base64_image1' = NoPayload
    /\ base64_image2' = NoPayload
    /\ message' = NoMessage
    /\ response' = NoResponse
    /\ sent' = <<>>
    /\ callResult' = NoCall
    /\ UNCHANGED <<credentials, inflight, failedBefore>>

\* Lines 45-50: the user puts a file into slot 1, replaces it or removes it.
ChangeUpload1(file) ==
    /\ ScriptIdle
    /\ Shows(El("file_uploader", <<"sig", "1">>))
    /\ file # signature1
    /\ Rerun("upload", file, signature2)

\* Lines 54-59: the same for slot 2.
ChangeUpload2(file) ==
    /\ ScriptIdle
    /\ Shows(El("file_uploader", <<"sig", "2">>))
    /\ file # signature2
    /\ Rerun("upload", signature1, file)

\* Lines 63-68: the user clicks the compare button.
ClickCompare ==
    /\ ScriptIdle
    /\ Rendered("button")
    /\ Rerun("compare", signature1, signature2)

\* Lines 145-150: the user clicks the download button; the browser saves
\* the file and the script runs again.
ClickDownload ==
    /\ ScriptIdle
    /\ Rendered("download_button")
    /\ Rerun("download", signature1, signature2)

(***************************************************************************)
(* The try block of the handler, statement by statement.                   *)
(***************************************************************************)
\* The run leaves the spinner block, renders what is left and the footer.
FinishRun(elements) ==
    /\ screen' = SubSeq(screen, 1, Len(screen) - 1) \o elements \o PageFooter
    /\ pc' = "idle"

\* Lines 152-156: an exception raised inside the try block.
Raise(e) == FinishRun(ExceptHandler(e))

\* Lines 72-77: llm = AzureChatOpenAI(...).
ConstructClient ==
    /\ pc = "init"
    /\ llm' = AzureChatOpenAI(azure_endpoint, api_key, deployment_name, api_version)
    /\ pc' = "encode1"
    /\ UNCHANGED <<credentials, signature1, signature2, trigger, screen,
                   base64_image1, base64_image2, message, response, sent,
                   inflight, callResult, failedBefore>>

ConstructClientRaises ==
    /\ pc = "init"
    /\ ClientInitMayRaise(api_version)
    /\ Raise("ValueError")
    /\ UNCHANGED <<credentials, signature1, signature2, trigger, llm,
                   base64_image1, base64_image2, message, response, sent,
                   inflight, callResult, failedBefore>>

\* Line 80: base64_image1 = encode_image(Image.open(signature1)).
EncodeFirst ==
    /\ pc = "encode1"
    /\ CanOpen(signature1)
    /\ CanSavePng(Image_open(signature1))
    /\ base64_image1' = encode_image(Image_open(signature1))
    /\ pc' = "encode2"
    /\ UNCHANGED <<credentials, signature1, signature2, trigger, screen, llm,
                   base64_image2, message, response, sent, inflight,
                   callResult, failedBefore>>

EncodeFirstRaises ==
    /\ pc = "encode1"
    /\ ~(CanOpen(signature1) /\ CanSavePng(Image_open(signature1)))
    /\ Raise("OSError")
    /\ UNCHANGED <<credentials, signature1, signature2, trigger, llm,
                   base64_image1, base64_image2, message, response, sent,
                   inflight, callResult, failedBefore>>

\* Line 81: base64_image2 = encode_image(Image.open(signature2)).
EncodeSecond ==
    /\ pc = "encode2"
    /\ CanOpen(signature2)
    /\ CanSavePng(Image_open(signature2))
    /\ base64_image2' = encode_image(Image_open(signature2))
    /\ pc' = "message"
    /\ UNCHANGED <<credentials, signature1, signature2, trigger, screen, llm,
                   base64_image1, message, response, sent, inflight,
                   callResult, failedBefore>>

EncodeSecondRaises ==
    /\ pc = "encode2"
    /\ ~(CanOpen(signature2) /\ CanSavePng(Image_open(signature2)))
    /\ Raise("OSError")
    /\ UNCHANGED <<credentials, signature1, signature2, trigger, llm,
                   base64_image1, base64_image2, message, response, sent,
                   inflight, callResult, failedBefore>>

\* Lines 84-134: the prompt and the message.
CreateMessage ==
    /\ pc = "message"
    /\ message' = HumanMessage(prompt, base64_image1, base64_image2)
    /\ pc' = "invoke"
    /\ UNCHANGED <<credentials, signature1, signature2, trigger, screen, llm,
                   base64_image1, base64_image2, response, sent, inflight,
                   callResult, failedBefore>>

\* Line 137: llm.invoke([message]) sends the request and blocks.
InvokeSend ==
    /\ pc = "invoke"
    /\ sent' = Append(sent, [client |-> llm, messages |-> <<message>>])
    /\ inflight' = inflight + 1
    /\ pc' = "waiting"
    /\ UNCHANGED <<credentials, signature1, signature2, trigger, screen, llm,
                   base64_image1, base64_image2, message, response,
                   callResult, failedBefore>>

\* Lines 137-150: the call returns; the report and the download button are
\* rendered from response.content.
InvokeReturn(content) ==
    /\ pc = "waiting"
    /\ callResult' = [status |-> "returned", content |-> content]
    /\ inflight' = inflight - 1
    /\ response' = content
    /\ FinishRun(ResultsSection(content))
    /\ UNCHANGED <<credentials, signature1, signature2, trigger, llm,
                   base64_image1, base64_image2, message, sent, failedBefore>>

\* Lines 137, 152-156: the call raises.
InvokeRaises(e) ==
    /\ pc = "waiting"
    /\ callResult' = [status |-> "raised", error |-> e]
    /\ inflight' = inflight - 1
    /\ Raise(e)
    /\ failedBefore' = TRUE
    /\ UNCHANGED <<credentials, signature1, signature2, trigger, llm,
                   base64_image1, base64_image2, message, response, sent>>

Next ==
    \/ \E file \in UploadableFiles \cup {NoFile} : ChangeUpload1(file)
    \/ \E file \in UploadableFiles \cup {NoFile} : ChangeUpload2(file)
    \/ ClickCompare
    \/ ClickDownload
    \/ ConstructClient
    \/ ConstructClientRaises
    \/ EncodeFirst
    \/ EncodeFirstRaises
    \/ EncodeSecond
    \/ EncodeSecondRaises
    \/ CreateMessage
    \/ InvokeSend
    \/ \E content \in Responses : InvokeReturn(content)
    \/ \E e \in RemoteFailures : InvokeRaises(e)

Spec == Init /\ [][Next]_vars


(***************************************************************************)
(* Observable states of the page.                                          *)
(***************************************************************************)
Analyzing == pc \in {"init", "encode1", "encode2", "message", "invoke", "waiting"}

ShowsConfigurationError == Shows(El("error", ConfigurationErrorMsg))

ShowsInputError == Shows(El("error", InputErrorMsg))

ShowsRemoteError ==
    \E i \in 1..Len(screen) :
        screen[i].kind = "error" /\ screen[i].body[1] = "Error: "

Complete == pc = "idle" /\ Rendered("report")

Failed == pc = "idle" /\ ShowsRemoteError

\* Number of outcome elements (error boxes and reports) on the page.
OutcomeCount ==
    Cardinality({i \in 1..Len(screen) : screen[i].kind \in {"error", "report"}})

\* A compare click has run to its end.
CompareRunEnded == trigger = "compare" /\ pc = "idle"

EndpointOrKeyMissing ==
    azure_endpoint \in {None, ""} \/ api_key \in {None, ""}

SomeSlotEmpty == signature1 = NoFile \/ signature2 = NoFile

\* The run made no step towards the remote model.
NothingAttempted ==
    /\ llm = NoClient
    /\ base64_image1 = NoPayload
    /\ base64_image2 = NoPayload
    /\ message = NoMessage
    /\ sent = <<>>
    /\ inflight = 0
    /\ callResult = NoCall

(***************************************************************************)
(* C1.  A compare action triggered while ENDPOINT or SECRET_KEY is unset   *)
(* or empty ends with the ConfigurationError message, whatever the upload  *)
(* slots contain, and makes no remote call: no client is constructed, no   *)
(* image is encoded, no message is built, llm.invoke is not reached.       *)
(***************************************************************************)
C1_ConfigurationErrorWithoutRemoteCall ==
    (trigger = "compare" /\ EndpointOrKeyMissing) =>
        /\ pc = "idle"
        /\ ShowsConfigurationError
        /\ OutcomeCount = 1
        /\ NothingAttempted

\* The key alone is missing and both slots hold a file.
C1_Witness ==
    /\ trigger = "compare"
    /\ azure_endpoint = "set"
    /\ api_key = None
    /\ signature1 # NoFile
    /\ signature2 # NoFile
    /\ ShowsConfigurationError

(***************************************************************************)
(* C2.  As claimed: a compare action triggered while either upload slot is *)
(* empty shows the InputError message and makes no remote call, for every  *)
(* state of the credentials.                                               *)
(***************************************************************************)
C2_InputErrorForEveryCredentialState ==
    (trigger = "compare" /\ SomeSlotEmpty) =>
        /\ ShowsInputError
        /\ sent = <<>>

(***************************************************************************)
(* C2, amended.  A compare action triggered while either upload slot is    *)
(* empty makes no remote call for every state of the credentials; it shows *)
(* the InputError message when ENDPOINT and SECRET_KEY are both non-empty  *)
(* and the ConfigurationError message otherwise.                           *)
(***************************************************************************)
C2_InputErrorWhenCredentialsPresent ==
    (trigger = "compare" /\ SomeSlotEmpty) =>
        /\ pc = "idle"
        /\ NothingAttempted
        /\ OutcomeCount = 1
        /\ IF EndpointOrKeyMissing THEN ShowsConfigurationError
                                   ELSE ShowsInputError

\* Slot 1 holds a file, slot 2 is empty, the InputError message is shown.
C2_Witness ==
    /\ trigger = "compare"
    /\ signature1 # NoFile
    /\ signature2 = NoFile
    /\ ShowsInputError


\* The file decodes completely and its mode can be written as PNG.
PngEncodable(file) ==
    file # NoFile /\ file.integrity = "ok" /\ file.mode = "RGB"

\* The content llm.invoke must carry for the two slots: the prompt, then the
\* data URI of slot 1, then the data URI of slot 2.
ExpectedContent ==
    <<[type |-> "text", text |-> prompt],
      [type |-> "image_url",
       image_url |-> [url |-> <<"data:image/png;base64,">>
                               \o b64encode(PngBytes(Image_open(signature1)))]],
      [type |-> "image_url",
       image_url |-> [url |-> <<"data:image/png;base64,">>
                               \o b64encode(PngBytes(Image_open(signature2)))]]>>

ExactlyOneRequestInUploadOrder ==
    /\ Len(sent) = 1
    /\ Len(sent[1].messages) = 1
    /\ sent[1].messages[1].kind = "HumanMessage"
    /\ sent[1].messages[1].content = ExpectedContent

C4_RemoteFailureLeavesSessionUsable ==
    callResult.status = "raised" =>
        /\ Failed
        /\ Shows(El("error", <<"Error: ", callResult.error>>))
        /\ OutcomeCount = 1
        /\ inflight = 0
        /\ Rendered("button")
        /\ ENABLED ClickCompare

\* After a remote call of the session raised, a later compare action went
\* through Analyzing and reached Complete.
C4_Witness ==
    /\ failedBefore
    /\ Complete
    /\ callResult.status = "returned"

(***************************************************************************)
(* C5.  As claimed: a ComparisonRequest is constructed only if two images  *)
(* are present and endpoint, API key, deployment name and API version are  *)
(* all non-empty; in every other case no request is constructed and an     *)
(* error is shown.                                                         *)
(***************************************************************************)
C5_RequestNeedsAllFourCredentials ==
    /\ message # NoMessage =>
        /\ ~SomeSlotEmpty
        /\ \A v \in {azure_endpoint, api_key, deployment_name, api_version} :
               v \notin {None, ""}
    /\ (/\ CompareRunEnded
        /\ \/ SomeSlotEmpty
           \/ \E v \in {azure_endpoint, api_key, deployment_name, api_version} :
                  v \in {None, ""})
            => (message = NoMessage /\ Rendered("error"))

(***************************************************************************)
(* C5, amended.  A ComparisonRequest is constructed only if two images are *)
(* present and ENDPOINT and SECRET_KEY are non-empty (DEPLOYMENT and       *)
(* VERSION are not checked); when an image or one of ENDPOINT and          *)
(* SECRET_KEY is missing, no request is constructed and the               *)
(* ConfigurationError or InputError message is shown instead.              *)
(***************************************************************************)
C5_RequestNeedsEndpointAndKey ==
    /\ message # NoMessage =>
        /\ ~SomeSlotEmpty
        /\ ~EndpointOrKeyMissing
    /\ (trigger = "compare" /\ (SomeSlotEmpty \/ EndpointOrKeyMissing)) =>
        /\ pc = "idle"
        /\ message = NoMessage
        /\ ShowsConfigurationError \/ ShowsInputError
        /\ OutcomeCount = 1

\* A request was constructed although DEPLOYMENT is unset.
C5_Witness ==
    /\ message # NoMessage
    /\ deployment_name = None
    /\ azure_endpoint = "set"
    /\ api_key = "set"

(***************************************************************************)
(* C6.  Whenever a compare action reaches Complete, the rendered report    *)
(* and the data of the download artifact (signature_comparison_report.md,  *)
(* text/markdown) are both exactly the content the model client returned   *)
(* for the request of that run.                                            *)
(***************************************************************************)
C6_ReportAndDownloadAreTheResponse ==
    Complete =>
        /\ callResult.status = "returned"
        /\ Len(sent) = 1
        /\ response = callResult.content
        /\ Cardinality({i \in 1..Len(screen) : screen[i].kind = "report"}) = 1
        /\ Cardinality({i \in 1..Len(screen) :
                            screen[i].kind = "download_button"}) = 1
        /\ \A i \in 1..Len(screen) :
            /\ screen[i].kind = "report" => screen[i].body = callResult.content
            /\ screen[i].kind = "download_button" =>
                /\ screen[i].data = callResult.content
                /\ screen[i].file_name = "signature_comparison_report.md"
                /\ screen[i].mime = "text/markdown"

\* Complete with the longer of the two responses.
C6_Witness ==
    /\ Complete
    /\ callResult.status = "returned"
    /\ Len(callResult.content) = 5


(***************************************************************************)
(* C7.  As claimed: once a comparison has completed, the report and the    *)
(* download button stay displayed until a new comparison overwrites them;  *)
(* a page run started by changing an upload or by clicking the download    *)
(* button does not end the Complete state.                                 *)
(***************************************************************************)
C7_ReportSurvivesOtherInteractions ==
    [][(Complete /\ trigger' # "compare") =>
            (Complete' /\ Rendered("download_button")')]_vars

(***************************************************************************)
(* C7, amended.  The report and the download button are displayed only at  *)
(* the end of the page run that a compare click started and whose remote   *)
(* call returned; the next page run of any kind (changing an upload,       *)
(* clicking the download button, a new compare click) starts without them, *)
(* so the Complete state ends with the next user interaction.              *)
(***************************************************************************)
C7_ReportLastsUntilNextInteraction ==
    /\ [](Rendered("report") \/ Rendered("download_button") =>
            /\ trigger = "compare"
            /\ pc = "idle"
            /\ callResult.status = "returned")
    /\ [][Complete =>
            (~Rendered("report")' /\ ~Rendered("download_button")')]_vars

\* The download button, which only a completed comparison renders, was
\* clicked: the page run it started shows neither report nor download
\* button.
C7_Witness ==
    /\ trigger = "download"
    /\ pc = "idle"
    /\ ~Rendered("report")
    /\ ~Rendered("download_button")
    /\ Rendered("button")

\* A step of the try block before the remote call raised.
ClientConstructionFailed == llm = NoClient

EncodingFailed ==
    /\ llm # NoClient
    /\ ~(PngEncodable(signature1) /\ PngEncodable(signature2))

\* A compare click entered the try block and the run has ended.
AnalysisEnded == CompareRunEnded /\ ~EndpointOrKeyMissing /\ ~SomeSlotEmpty

(***************************************************************************)
(* C8.  As claimed: the run leaves Analyzing to Failed only when the       *)
(* remote call fails; client construction, decoding and encoding of the    *)
(* images and message construction cannot by themselves cause Failed.      *)
(***************************************************************************)
C8_FailedOnlyByRemoteCall ==
    (AnalysisEnded /\ Failed) => callResult.status = "raised"

(***************************************************************************)
(* C8, amended.  The run leaves Analyzing to Complete exactly when the     *)
(* remote call returns a response, and to Failed exactly when a statement  *)
(* of the try block raises: the remote call, the construction of the model *)
(* client, or the encoding of one of the two images.  Every analysis ends  *)
(* in exactly one of the two states.                                       *)
(***************************************************************************)
C8_FailedByAnyStepOfTryBlock ==
    AnalysisEnded =>
        /\ Complete <=> callResult.status = "returned"
        /\ Failed <=> \/ callResult.status = "raised"
                      \/ ClientConstructionFailed
                      \/ EncodingFailed
        /\ Complete # Failed
        /\ (ClientConstructionFailed \/ EncodingFailed) => sent = <<>>

\* Failed although no remote call was made: an image could not be encoded.
C8_Witness ==
    /\ AnalysisEnded
    /\ Failed
    /\ callResult = NoCall
    /\ llm # NoClient
    /\ PngEncodable(signature1)
    /\ ~PngEncodable(signature2)

C10_CredentialCheckPrecedesImageCheck ==
    CompareRunEnded =>
        /\ OutcomeCount = 1
        /\ ShowsConfigurationError <=> EndpointOrKeyMissing
        /\ ShowsInputError <=> (~EndpointOrKeyMissing /\ SomeSlotEmpty)
        /\ (Failed \/ Complete) <=> (~EndpointOrKeyMissing /\ ~SomeSlotEmpty)

\* Endpoint and an image are both missing: the ConfigurationError message
\* alone is shown.
C10_Witness ==
    /\ CompareRunEnded
    /\ azure_endpoint = ""
    /\ api_key = "set"
    /\ signature1 = NoFile
    /\ signature2 # NoFile
    /\ ShowsConfigurationError
    /\ ~ShowsInputError

=============================================================================
